---- MODULE Spec2Model ----
(***************************************************************************)
(* Session tracking of app/services/ollama.py (OllamaService).             *)
(*                                                                         *)
(* A Python dict is a TLA+ function whose domain is its set of keys, a     *)
(* Python list a sequence, a Python str a sequence of character codes, so  *)
(* that the string comparisons of the code are lexicographic comparisons   *)
(* here.  The four snapshot fields of a session (families, parameter_size, *)
(* size, cpu_gpu_split) are copied together and never read by the service: *)
(* they are one field, meta.  A poll tick runs to completion before the    *)
(* next begins: get_running_models is one step.  save_history is also     *)
(* taken apart into its two steps (SpecSave), for what a reader of the     *)
(* file can see between them.                                              *)
(***************************************************************************)
EXTENDS Integers, Sequences, FiniteSets, TLC

VARIABLES
    pc,        \* "boot" before OllamaService(app) ran init_app, "run" after;
               \* "save", "opened", "done" along save_history (SpecSave)
    file,      \* the document at app.config['HISTORY_FILE']
    history,   \* self.history
    prev,      \* self._previous_model_names
    clock,     \* the time of the last call; every call reads a later time
    ret,       \* how the last call ended: "none", "ok" (returned), "error" (raised)
    last,      \* the last call and its inputs (history variable)
    log,       \* the present-sets reconciled since startup, with their times
               \* and whether the write of the tick failed (history variable)
    loaded,    \* the list load_history returned at startup (history variable);
               \* in SpecSave, what a reader of the file got
    before,    \* history, prev and file when the last call began (history variable)
    sessions,  \* the list the last get_history returned
    split      \* the arguments and the result of calculate_memory_split

vars == <<pc, file, history, prev, clock, ret, last, log, loaded, before, sessions,
          split>>

----------------------------------------------------------------------------
(* Bounds of the model *)

\* names the Status Source can report
Names == {"A", "B"}
\* snapshot metadata a report can carry for a name
Metas == {"m1", "m2"}
\* reconciled ticks per process
MaxTicks == 3
\* clock readings per day
TicksPerDay == 2
\* records in a persisted document that load_history is run on (LoadDocs)
MaxDocLen == 2
\* bytes of the largest model calculate_memory_split is run on
MaxSize == 40

\* HISTORY_RETENTION_DAYS, by default
RetentionDays == 30

----------------------------------------------------------------------------
(* Values *)

\* JSON / Python values a record can hold under a key
Null == [t |-> "null", s |-> <<>>]
Num == [t |-> "num", s |-> <<>>]
Str(s) == [t |-> "str", s |-> s]

IsDict(r) == "t" \notin DOMAIN r

\* d.get(k, default)
Get(d, k, default) == IF k \in DOMAIN d THEN d[k] ELSE default

\* d[k] = v
SetKey(d, k, v) == [x \in DOMAIN d \cup {k} |-> IF x = k THEN v ELSE d[x]]

\* datetime.isoformat(): zero-padded fixed-width fields, and a fraction that
\* is written only when it is not zero.  A time is a count of clock
\* readings; its day is written in two digits.
IsoFormat(t) ==
    LET day == t \div TicksPerDay
        frac == t % TicksPerDay
    IN  <<48 + (day \div 10), 48 + (day % 10)>>
            \o (IF frac = 0 THEN <<>> ELSE <<46, 48 + frac>>)

\* a < b on Python strings
RECURSIVE StrLess(_, _)
StrLess(a, b) ==
    IF b = <<>> THEN FALSE
    ELSE IF a = <<>> THEN TRUE
    ELSE IF Head(a) # Head(b) THEN Head(a) < Head(b)
    ELSE StrLess(Tail(a), Tail(b))

\* a >= b on Python strings
StrGeq(a, b) == ~StrLess(a, b)

----------------------------------------------------------------------------
(* The persisted document *)

\* what open(HISTORY_FILE, 'w') followed by json.dump can do
WriteOutcomes == {"ok", "open_fail", "write_fail"}

DocOf(recs) == [kind |-> "doc", recs |-> recs]
Missing == [kind |-> "missing", recs |-> <<>>]
\* unreadable, truncated or not JSON: json.load raises
Corrupt == [kind |-> "corrupt", recs |-> <<>>]
\* JSON, but not a list
NonList == [kind |-> "nonlist", recs |-> <<>>]

\* with open(HISTORY_FILE, 'w') as f: json.dump(recs, f)
\* open 'w' truncates before anything is written
WriteFile(f, recs, wr) ==
    CASE wr = "ok" -> DocOf(recs)
      [] wr = "open_fail" -> f
      [] wr = "write_fail" -> Corrupt

----------------------------------------------------------------------------
(* load_history *)

\* the test of line 195 raises TypeError on a first record that is a number
\* or null; on a string it is a substring test, and false
OldFormatRaises(h) == h # <<>> /\ ~IsDict(h[1]) /\ h[1].t # "str"

\* (mutant) no detection of the old format
IsOldFormat_Never(h) == FALSE

\* history and isinstance(history, list) and 'timestamp' in history[0]
\*   and 'models' in history[0]
IsOldFormat(h) ==
    /\ h # <<>>
    /\ IsDict(h[1])
    /\ "timestamp" \in DOMAIN h[1]
    /\ "models" \in DOMAIN h[1]

\* s.get('started_at', '')
StartedOrEmpty(s) == Get(s, "started_at", Str(<<>>))

\* s.get raises on a record that is no dict, >= raises on a started_at that
\* is no string
PruneRaises(h) ==
    \E i \in DOMAIN h : ~IsDict(h[i]) \/ StartedOrEmpty(h[i]).t # "str"

\* datetime.now() - timedelta(days=retention_days), as isoformat()
CutoffIso(now) == IsoFormat(now - RetentionDays * TicksPerDay)

\* (mutant) > in place of >=
Retained_Strict(s, cutoff_iso) == StrLess(cutoff_iso, StartedOrEmpty(s).s)

\* (mutant) a session with ended_at unset is kept whatever its age, to be
\* repaired
Retained_KeepOrphans(s, cutoff_iso) ==
    \/ StrGeq(StartedOrEmpty(s).s, cutoff_iso)
    \/ "started_at" \in DOMAIN s /\ Get(s, "ended_at", Null) = Null

\* s.get('started_at', '') >= cutoff_iso
Retained(s, cutoff_iso) == StrGeq(StartedOrEmpty(s).s, cutoff_iso)

\* [s for s in history if s.get('started_at', '') >= cutoff_iso]
Prune(h, cutoff_iso) == SelectSeq(h, LAMBDA s : Retained(s, cutoff_iso))

\* (mutant) without the test of ended_at: every session is closed at its start
CloseOrphan_Always(s) == SetKey(s, "ended_at", s["started_at"])

\* if session.get('ended_at') is None: session['ended_at'] = session['started_at']
CloseOrphan(s) ==
    IF Get(s, "ended_at", Null) = Null
    THEN SetKey(s, "ended_at", s["started_at"])
    ELSE s

CloseOrphans(h) == [i \in DOMAIN h |-> CloseOrphan(h[i])]

\* the try block of load_history on the records of a document that parsed as
\* a list: what it returns, or that it raised
LoadRecords(recs, now) ==
    IF OldFormatRaises(recs) THEN [history |-> <<>>, raised |-> TRUE]
    ELSE LET h == IF IsOldFormat(recs) THEN <<>> ELSE recs
         IN  IF PruneRaises(h) THEN [history |-> <<>>, raised |-> TRUE]
             ELSE [history |-> CloseOrphans(Prune(h, CutoffIso(now))),
                   raised |-> FALSE]

\* the try block of load_history: what it returns or that it raised, and the
\* file it leaves.  A file that is missing is written; a file that cannot be
\* read or parsed makes json.load raise; a document that is no list (a
\* number, null, an object with keys) makes the prune raise.
LoadTry(f, now, wr) ==
    CASE f.kind = "missing" ->
            [history |-> <<>>, raised |-> wr # "ok", file |-> WriteFile(f, <<>>, wr)]
      [] f.kind \in {"corrupt", "nonlist"} ->
            [history |-> <<>>, raised |-> TRUE, file |-> f]
      [] f.kind = "doc" ->
            [history |-> LoadRecords(f.recs, now).history,
             raised |-> LoadRecords(f.recs, now).raised, file |-> f]

\* (mutant) no handler: the exception leaves load_history
ExceptReturnEmpty_Reraise(tried) == tried

\* except Exception as e: print(...); return []
ExceptReturnEmpty(tried) ==
    IF tried.raised THEN [tried EXCEPT !.history = <<>>, !.raised = FALSE]
    ELSE tried

\* load_history: what it returns, whether an exception leaves it, and the
\* file it leaves
LoadHistory(f, now, wr) == ExceptReturnEmpty(LoadTry(f, now, wr))

\* s.get('ended_at') is None
IsOpen(s) == Get(s, "ended_at", Null) = Null

\* (mutant) the names of all sessions, open or not
OpenNames_AllSessions(h) == {Get(h[i], "model_name", "") : i \in DOMAIN h}

\* {s['model_name'] for s in self.history if s.get('ended_at') is None}
OpenNames(h) == {h[i]["model_name"] : i \in {j \in DOMAIN h : IsOpen(h[j])}}

----------------------------------------------------------------------------
(* update_history *)

\* an entry of current_models, as get_running_models builds it; the reports
\* of the model vary the metadata of one name
Entries == {e \in [name : Names, meta : Metas] : e.name = "B" => e.meta = "m1"}

\* {m['name'] for m in models}
CurrentNames(models) == {models[i].name : i \in DOMAIN models}

\* model_data[name], filled in the order of models: the last entry of a name
\* is the one kept
ModelData(models, name) ==
    LET at == {i \in DOMAIN models : models[i].name = name}
    IN  models[CHOOSE i \in at : \A j \in at : j <= i]

\* the dict update_history inserts for a new name
NewSession(name, m, now) ==
    [model_name |-> name,
     started_at |-> Str(IsoFormat(now)),
     ended_at |-> Null,
     meta |-> m.meta]

\* (mutant) self.history.append(session)
InsertFront_Append(h, session) == h \o <<session>>

\* self.history.insert(0, session)
InsertFront(h, session) == <<session>> \o h

\* the orders in which a for loop can visit a set
Orders(S) ==
    {o \in [1..Cardinality(S) -> S] : \A i, j \in DOMAIN o : i # j => o[i] # o[j]}

\* (mutant) a name that has a session gets its newest session reopened instead
\* of a new one
RECURSIVE OpenSessions_Reopen(_, _, _, _)
OpenSessions_Reopen(h, order, models, now) ==
    IF order = <<>> THEN h
    ELSE LET at == {i \in DOMAIN h : /\ "model_name" \in DOMAIN h[i]
                                      /\ h[i]["model_name"] = Head(order)}
         IN  IF at = {}
             THEN OpenSessions_Reopen(
                    InsertFront(h, NewSession(Head(order), ModelData(models, Head(order)), now)),
                    Tail(order), models, now)
             ELSE OpenSessions_Reopen(
                    [h EXCEPT ![CHOOSE i \in at : \A j \in at : i <= j] =
                                    SetKey(@, "ended_at", Null)],
                    Tail(order), models, now)

\* for name in new_names: ... self.history.insert(0, {...})
RECURSIVE OpenSessions(_, _, _, _)
OpenSessions(h, order, models, now) ==
    IF order = <<>> THEN h
    ELSE OpenSessions(
            InsertFront(h, NewSession(Head(order), ModelData(models, Head(order)), now)),
            Tail(order), models, now)

\* (mutant) the loop without the test of the name: the first open session is
\* closed
RECURSIVE CloseSession_AnyName(_, _, _, _)
CloseSession_AnyName(h, name, now, i) ==
    IF i > Len(h) THEN [history |-> h, changed |-> FALSE, raised |-> FALSE]
    ELSE IF Get(h[i], "ended_at", Null) = Null
         THEN [history |-> [h EXCEPT ![i] = SetKey(@, "ended_at", Str(IsoFormat(now)))],
               changed |-> TRUE, raised |-> FALSE]
    ELSE CloseSession_AnyName(h, name, now, i + 1)

\* (mutant) the loop without the test of ended_at and without the break: every
\* session of the name gets ended_at = now
RECURSIVE CloseSession_EverySession(_, _, _, _)
CloseSession_EverySession(h, name, now, i) ==
    IF i > Len(h) THEN [history |-> h, changed |-> TRUE, raised |-> FALSE]
    ELSE IF Get(h[i], "model_name", "") = name
         THEN CloseSession_EverySession(
                [h EXCEPT ![i] = SetKey(@, "ended_at", Str(IsoFormat(now)))], name, now, i + 1)
    ELSE CloseSession_EverySession(h, name, now, i + 1)

\* for session in self.history:
\*     if session['model_name'] == name and session['ended_at'] is None:
\*         session['ended_at'] = now; changed = True; break
\* from position i on.  A session without the key read raises KeyError.
RECURSIVE CloseSession(_, _, _, _)
CloseSession(h, name, now, i) ==
    IF i > Len(h) THEN [history |-> h, changed |-> FALSE, raised |-> FALSE]
    ELSE IF "model_name" \notin DOMAIN h[i]
         THEN [history |-> h, changed |-> FALSE, raised |-> TRUE]
    ELSE IF h[i]["model_name"] # name THEN CloseSession(h, name, now, i + 1)
    ELSE IF "ended_at" \notin DOMAIN h[i]
         THEN [history |-> h, changed |-> FALSE, raised |-> TRUE]
    ELSE IF h[i]["ended_at"] = Null
         THEN [history |-> [h EXCEPT ![i]["ended_at"] = Str(IsoFormat(now))],
               changed |-> TRUE, raised |-> FALSE]
    ELSE CloseSession(h, name, now, i + 1)

\* for name in removed_names: (the loop above)
RECURSIVE CloseSessions(_, _, _)
CloseSessions(h, order, now) ==
    IF order = <<>> THEN [history |-> h, changed |-> FALSE, raised |-> FALSE]
    ELSE LET one == CloseSession(h, Head(order), now, 1)
         IN  IF one.raised THEN one
             ELSE LET rest == CloseSessions(one.history, Tail(order), now)
                  IN  [rest EXCEPT !.changed = one.changed \/ rest.changed]

\* (mutant) self._previous_model_names left as it was
UpdateHistory_KeepPrev(h, p, models, now, new_order, removed_order) ==
    LET closed == CloseSessions(OpenSessions(h, new_order, models, now), removed_order, now)
    IN  [history |-> closed.history, prev |-> p,
         changed |-> (new_order # <<>>) \/ closed.changed, raised |-> closed.raised]

\* (mutant) changed set on every call
UpdateHistory_AlwaysChanged(h, p, models, now, new_order, removed_order) ==
    LET closed == CloseSessions(OpenSessions(h, new_order, models, now), removed_order, now)
    IN  [history |-> closed.history,
         prev |-> IF closed.raised THEN p ELSE CurrentNames(models),
         changed |-> TRUE, raised |-> closed.raised]

\* update_history up to, and without, save_history: the new self.history and
\* self._previous_model_names, whether changed is set, whether it raised
UpdateHistory(h, p, models, now, new_order, removed_order) ==
    LET current_names == CurrentNames(models)
        opened == OpenSessions(h, new_order, models, now)
        closed == CloseSessions(opened, removed_order, now)
    IN  IF closed.raised
        THEN [history |-> closed.history, prev |-> p,
              changed |-> TRUE, raised |-> TRUE]
        ELSE [history |-> closed.history, prev |-> current_names,
              changed |-> (new_order # <<>>) \/ closed.changed, raised |-> FALSE]

\* (mutant) only the open sessions are dumped
SaveHistory_OpenSessions(f, h, wr) == WriteFile(f, SelectSeq(h, IsOpen), wr)

\* save_history
SaveHistory(f, h, wr) == WriteFile(f, h, wr)

----------------------------------------------------------------------------
(* The environment: clock, Status Source, documents found at startup *)

\* the first reading of the clock, by load_history
BootTime == (RetentionDays + 5) * TicksPerDay
\* the cutoff of that reading
BootCutoff == BootTime - RetentionDays * TicksPerDay

\* reports of the Status Source, after get_running_models formatted them
\* no entry, one entry, or two: two names, or one name twice
ModelLists == {<<>>} \cup {<<e>> : e \in Entries} \cup {<<e, f>> : e, f \in Entries}

\* requests.get / raise_for_status / response.json raising
FetchFailures == {"connection_error", "timeout", "http_error", "bad_body"}

\* a session as update_history writes it
Session(name, started, ended, meta) ==
    [model_name |-> name, started_at |-> started, ended_at |-> ended, meta |-> meta]

\* the legacy record shape
Legacy == [timestamp |-> Str(IsoFormat(BootTime - 1)), models |-> Null]

\* documents a process of the service finds at startup
BootDocs ==
    { Missing, Corrupt, DocOf(<<>>), DocOf(<<Legacy>>),
      DocOf(<<Session("A", Str(IsoFormat(BootTime - 1)), Null, "m1")>>),
      DocOf(<<Session("B", Str(IsoFormat(BootTime - 2)),
                      Str(IsoFormat(BootTime - 1)), "m2"),
              Session("A", Str(IsoFormat(BootCutoff - 1)),
                      Str(IsoFormat(BootCutoff)), "m1")>>),
      DocOf(<<[started_at |-> Str(IsoFormat(BootTime - 1)), ended_at |-> Null]>>) }

\* no call of calculate_memory_split yet
NoSplit == [total_size |-> 0, vram_size |-> [none |-> TRUE, n |-> 0], result |-> <<>>]

NoCall == [op |-> "none", fetch |-> "none", models |-> <<>>, now |-> 0, wr |-> "none"]

\* the state a call begins in
Here == [history |-> history, prev |-> prev, file |-> file]

----------------------------------------------------------------------------
(* The service *)

\* OllamaService.__init__ up to the call of init_app
Init ==
    /\ pc = "boot"
    /\ file \in BootDocs
    /\ history = <<>>
    /\ prev = {}
    /\ clock = BootTime - 1
    /\ ret = "none"
    /\ last = NoCall
    /\ log = <<>>
    /\ loaded = <<>>
    /\ before = Here
    /\ sessions = <<>>
    /\ split = NoSplit

\* init_app: load_history, then the seeding of _previous_model_names; an
\* exception that left load_history would leave init_app too
InitApp ==
    /\ pc = "boot"
    /\ \E wr \in (IF file.kind = "missing" THEN WriteOutcomes ELSE {"none"}) :
        LET now == clock + 1
            got == LoadHistory(file, now, wr)
        IN  /\ history' = got.history
            /\ file' = got.file
            /\ prev' = OpenNames(got.history)
            /\ clock' = now
            /\ pc' = IF got.raised THEN "crashed" ELSE "run"
            /\ ret' = IF got.raised THEN "error" ELSE "ok"
            /\ last' = [NoCall EXCEPT !.op = "load", !.now = now, !.wr = wr]
            /\ before' = Here
            /\ log' = <<>>
            /\ loaded' = got.history
            /\ UNCHANGED <<sessions, split>>

\* (mutant) every reported name taken as new
NewNames_NoDifference(models, p) == CurrentNames(models)

\* (mutant) every previous name taken as removed
RemovedNames_NoDifference(models, p) == p

\* (mutant) an empty report taken as a failed poll: nothing is closed
RemovedNames_IgnoreEmpty(models, p) ==
    IF models = <<>> THEN {} ELSE p \ CurrentNames(models)

\* new_names and removed_names of update_history
NewNames(models, p) == CurrentNames(models) \ p
RemovedNames(models, p) == p \ CurrentNames(models)

\* (mutant) a failed fetch taken as a report of no models
FetchFailed_AsNoModels ==
    /\ pc = "run"
    /\ \E fetch \in FetchFailures :
        \E removed_order \in Orders(prev) :
            LET now == clock + 1
                u == UpdateHistory(history, prev, <<>>, now, <<>>, removed_order)
            IN  /\ history' = u.history
                /\ prev' = u.prev
                /\ file' = IF u.changed THEN SaveHistory(file, u.history, "ok") ELSE file
                /\ ret' = "ok"
                /\ clock' = now
                /\ last' = [NoCall EXCEPT !.op = "tick", !.fetch = fetch, !.now = now]
                /\ before' = Here
                /\ UNCHANGED <<pc, log, loaded, sessions, split>>

\* get_running_models when the fetch raises: lines 178-183
FetchFailed ==
    /\ pc = "run"
    /\ \E fetch \in FetchFailures :
        /\ ret' = "error"
        /\ last' = [NoCall EXCEPT !.op = "tick", !.fetch = fetch, !.now = clock]
        /\ before' = Here
        /\ UNCHANGED <<pc, file, history, prev, clock, log, loaded, sessions, split>>

\* get_running_models when the fetch succeeds with the report models:
\* update_history(current_models), with save_history when changed is set
ReconcileWith(models) ==
    \E new_order \in Orders(NewNames(models, prev)),
       removed_order \in Orders(RemovedNames(models, prev)) :
        LET now == clock + 1
            u == UpdateHistory(history, prev, models, now, new_order, removed_order)
        IN  \E wr \in (IF u.changed /\ ~u.raised THEN WriteOutcomes ELSE {"none"}) :
                /\ history' = u.history
                /\ prev' = u.prev
                /\ file' = IF wr = "none" THEN file
                           ELSE SaveHistory(file, u.history, wr)
                /\ ret' = IF u.raised \/ wr \in {"open_fail", "write_fail"}
                          THEN "error" ELSE "ok"
                /\ clock' = now
                /\ last' = [NoCall EXCEPT !.op = "tick", !.fetch = "ok",
                                         !.models = models, !.now = now, !.wr = wr]
                /\ log' = Append(log, [names |-> CurrentNames(models), at |-> now,
                                      failed |-> wr \in {"open_fail", "write_fail"}])
                /\ before' = Here
                /\ UNCHANGED <<pc, loaded, sessions, split>>

Reconcile ==
    /\ pc = "run"
    /\ Len(log) < MaxTicks
    /\ \E models \in ModelLists : ReconcileWith(models)

GetRunningModels == FetchFailed \/ Reconcile

Next == InitApp \/ GetRunningModels

Spec == Init /\ [][Next]_vars

----------------------------------------------------------------------------
(* The scenario of four ticks: {A}, {A,B}, {B}, {} *)

Scenario == <<{"A"}, {"A", "B"}, {"B"}, {}>>

ScenarioTick ==
    /\ pc = "run"
    /\ Len(log) < Len(Scenario)
    /\ \E models \in {m \in ModelLists : CurrentNames(m) = Scenario[Len(log) + 1]} :
        ReconcileWith(models)

NextScenario == InitApp \/ FetchFailed \/ ScenarioTick

SpecScenario == Init /\ [][NextScenario]_vars

----------------------------------------------------------------------------
(* load_history on the documents a file can hold *)

LoadTimes == {BootCutoff - 1, BootCutoff, BootTime - 1}

LoadSessions ==
    [model_name : Names,
     started_at : {Str(IsoFormat(t)) : t \in LoadTimes},
     ended_at : {Null, Str(IsoFormat(BootTime - 1))},
     meta : {"m1"}]

\* records that are not sessions as update_history writes them
OddRecords ==
    { [model_name |-> "A", ended_at |-> Null, meta |-> "m1"],
      [model_name |-> "A", started_at |-> Str(IsoFormat(BootTime - 1)), meta |-> "m1"],
      [started_at |-> Str(IsoFormat(BootTime - 1)), ended_at |-> Null],
      [model_name |-> "A", started_at |-> Num, ended_at |-> Null, meta |-> "m1"],
      Legacy,
      [timestamp |-> Str(IsoFormat(BootTime - 1)), models |-> Null,
       model_name |-> "A", started_at |-> Str(IsoFormat(BootTime - 1)),
       ended_at |-> Null, meta |-> "m1"],
      Num,
      Str(IsoFormat(BootTime - 1)) }

DocRecords == LoadSessions \cup OddRecords

LoadDocs ==
    {Missing, Corrupt, NonList}
        \cup {DocOf(recs) : recs \in UNION {[1..n -> DocRecords] : n \in 0..MaxDocLen}}

InitLoad ==
    /\ pc = "boot"
    /\ file \in LoadDocs
    /\ history = <<>>
    /\ prev = {}
    /\ clock = BootTime - 1
    /\ ret = "none"
    /\ last = NoCall
    /\ log = <<>>
    /\ loaded = <<>>
    /\ before = Here
    /\ sessions = <<>>
    /\ split = NoSplit

NextLoad == InitApp

SpecLoad == InitLoad /\ [][NextLoad]_vars

----------------------------------------------------------------------------
(* save_history step by step, with a reader of the file *)

\* collections save_history can be called with
Collections == UNION {[1..n -> LoadSessions] : n \in 0..MaxDocLen}

\* update_history calls save_history: the file holds the document of an
\* earlier write, the collection has since got a session in front
InitSave ==
    /\ pc = "save"
    /\ history \in Collections
    /\ file \in {DocOf(<<>>), DocOf(SubSeq(history, 2, Len(history)))}
    /\ prev = {}
    /\ clock = BootTime
    /\ ret = "none"
    /\ last = NoCall
    /\ log = <<>>
    /\ loaded = <<>>
    /\ before = Here
    /\ sessions = <<>>
    /\ split = NoSplit

\* open(HISTORY_FILE, 'w'): the file is truncated to nothing, or open raises
SaveOpen ==
    /\ pc = "save"
    /\ \E opened \in BOOLEAN :
        /\ file' = IF opened THEN Corrupt ELSE file
        /\ pc' = IF opened THEN "opened" ELSE "done"
        /\ ret' = IF opened THEN ret ELSE "error"
    /\ last' = [NoCall EXCEPT !.op = "save"]
    /\ UNCHANGED <<history, prev, clock, log, loaded, before, sessions, split>>

\* json.dump(self.history, f) and the close of the file: the document is
\* complete, or the dump raised and the file stays cut short
SaveDump ==
    /\ pc = "opened"
    /\ \E wr \in {"ok", "write_fail"} :
        /\ file' = WriteFile(file, history, wr)
        /\ ret' = IF wr = "ok" THEN "ok" ELSE "error"
    /\ pc' = "done"
    /\ last' = [NoCall EXCEPT !.op = "save"]
    /\ UNCHANGED <<history, prev, clock, log, loaded, before, sessions, split>>

\* another process, or this one restarted after a crash, reads the file:
\* open(history_file, 'r'), json.load(f)
ReadFile ==
    /\ pc \in {"save", "opened", "done"}
    /\ last.op # "read"
    /\ loaded' = <<file>>
    /\ last' = [NoCall EXCEPT !.op = "read"]
    /\ UNCHANGED <<pc, file, history, prev, clock, ret, log, before, sessions, split>>

NextSave == SaveOpen \/ SaveDump \/ ReadFile

SpecSave == InitSave /\ [][NextSave]_vars

----------------------------------------------------------------------------
(* get_history *)

\* (mutant) a session goes in front of the sessions of its started_at
InsertByStart_BeforeEquals(sorted, s) ==
    LET n == Cardinality({i \in DOMAIN sorted :
                            StrLess(StartedOrEmpty(s).s, StartedOrEmpty(sorted[i]).s)})
    IN  SubSeq(sorted, 1, n) \o <<s>> \o SubSeq(sorted, n + 1, Len(sorted))

\* sorted(..., reverse=True) is stable: a session goes behind the sessions
\* whose key is greater than or equal to its own
InsertByStart(sorted, s) ==
    LET n == Cardinality({i \in DOMAIN sorted :
                            StrGeq(StartedOrEmpty(sorted[i]).s, StartedOrEmpty(s).s)})
    IN  SubSeq(sorted, 1, n) \o <<s>> \o SubSeq(sorted, n + 1, Len(sorted))

\* sorted(self.history, key=lambda s: s.get('started_at', ''), reverse=True)
RECURSIVE SortedNewestFirst(_)
SortedNewestFirst(h) ==
    IF h = <<>> THEN <<>>
    ELSE InsertByStart(SortedNewestFirst(SubSeq(h, 1, Len(h) - 1)), h[Len(h)])

\* the latest time the clock of a run reaches
MaxTime == BootTime + 2 * MaxTicks + 4

\* datetime.fromisoformat accepts the value
IsIsoFormat(v) == v.t = "str" /\ \E t \in 0..MaxTime : IsoFormat(t) = v.s

\* datetime.fromisoformat
FromIsoFormat(v) == CHOOSE t \in 0..MaxTime : IsoFormat(t) = v.s

\* relativedelta carries whole months, which format_duration does not show;
\* a month is taken as 30 days
DaysPerMonth == 30

\* format_duration: the days and the part of a day of end - start, each shown
\* when positive ("<" stands for 'less than a minute', "?" for 'unknown')
FormatDuration(started_at, ended_at, now) ==
    IF ~IsIsoFormat(started_at) THEN Str(<<63>>)
    ELSE IF ended_at \notin {Null, Str(<<>>)} /\ ~IsIsoFormat(ended_at) THEN Str(<<63>>)
    ELSE LET start == FromIsoFormat(started_at)
             end == IF ended_at \in {Null, Str(<<>>)} THEN now
                    ELSE FromIsoFormat(ended_at)
             d == IF end > start THEN end - start ELSE 0
             days == (d \div TicksPerDay) % DaysPerMonth
             part == d % TicksPerDay
         IN  IF days = 0 /\ part = 0 THEN Str(<<60>>)
             ELSE Str((IF days > 0
                       THEN <<48 + (days \div 10), 48 + (days % 10), 100>> ELSE <<>>)
                      \o (IF part > 0 THEN <<48 + part, 104>> ELSE <<>>))

\* session['duration'] = format_duration(session['started_at'],
\*                                        session.get('ended_at'))
WithDuration(s, now) ==
    SetKey(s, "duration", FormatDuration(s["started_at"], Get(s, "ended_at", Null), now))

\* get_history: the dicts of self.history are the dicts of the returned list,
\* so the duration is written into the store too.  A session without
\* started_at would raise KeyError; load_history keeps none and
\* update_history writes none.
GetHistory ==
    /\ pc = "run"
    /\ last.op # "get_history"
    /\ LET now == clock + 1
       IN  /\ clock' = now
           /\ history' = [i \in DOMAIN history |-> WithDuration(history[i], now)]
           /\ sessions' = SortedNewestFirst(history')
           /\ last' = [NoCall EXCEPT !.op = "get_history", !.now = now]
    /\ ret' = "ok"
    /\ before' = Here
    /\ UNCHANGED <<pc, file, prev, log, loaded, split>>

\* a tick that writes, if it writes, without failure; one tick less than
\* Reconcile allows
ViewTick ==
    /\ Len(log) + 1 < MaxTicks
    /\ Reconcile
    /\ ret' = "ok"

NextView == InitApp \/ ViewTick \/ GetHistory

\* documents found at startup: those of BootDocs, and documents that are
\* not newest first (the clock that stamped them was set back, or they
\* were written by hand): oldest first, and with the oldest between two
\* sessions of one started_at
ViewDocs ==
    BootDocs \cup
    { DocOf(<<Session("A", Str(IsoFormat(BootTime - 3)), Str(IsoFormat(BootTime - 2)), "m1"),
              Session("B", Str(IsoFormat(BootTime - 2)), Str(IsoFormat(BootTime - 1)), "m1")>>),
      DocOf(<<Session("B", Str(IsoFormat(BootTime - 2)), Str(IsoFormat(BootTime - 1)), "m1"),
              Session("A", Str(IsoFormat(BootTime - 3)), Null, "m1"),
              Session("A", Str(IsoFormat(BootTime - 2)), Str(IsoFormat(BootTime - 2)), "m2")>>) }

InitView ==
    /\ pc = "boot"
    /\ file \in ViewDocs
    /\ history = <<>>
    /\ prev = {}
    /\ clock = BootTime - 1
    /\ ret = "none"
    /\ last = NoCall
    /\ log = <<>>
    /\ loaded = <<>>
    /\ before = Here
    /\ sessions = <<>>
    /\ split = NoSplit

SpecView == InitView /\ [][NextView]_vars

----------------------------------------------------------------------------
(* calculate_memory_split *)

(* Python floats are IEEE 754 binary64 numbers.  A float is here its        *)
(* significant bits, most significant first, and a scale: the value is the  *)
(* number the bits spell, divided by 2^scale.  Division and multiplication  *)
(* round to the nearest float of MantissaBits bits, halves to even.         *)

\* significant bits of a float
MantissaBits == 53

\* no bit of one
AllZero(bits) == \A i \in DOMAIN bits : bits[i] = 0

\* the number the bits spell (fewer than 31 bits)
RECURSIVE BitsToInt(_)
BitsToInt(bits) ==
    IF bits = <<>> THEN 0
    ELSE IF Len(bits) = 1 THEN bits[1]
    ELSE LET h == Len(bits) \div 2
         IN  BitsToInt(SubSeq(bits, 1, h)) * 2^(Len(bits) - h)
                + BitsToInt(SubSeq(bits, h + 1, Len(bits)))

\* the bits of n, none for 0
RECURSIVE IntToBits(_)
IntToBits(n) == IF n = 0 THEN <<>> ELSE IntToBits(n \div 2) \o <<n % 2>>

\* the w lowest bits of n
LowBits(n, w) == [i \in 1..w |-> (n \div 2^(w - i)) % 2]

\* the bits without the zeros in front
RECURSIVE Significant(_)
Significant(bits) ==
    IF bits = <<>> \/ bits[1] = 1 THEN bits ELSE Significant(Tail(bits))

\* bits * k + carry, for small k and carry; the bits are worked on 16 at a
\* time, so that every intermediate number stays below 2^31
RECURSIVE MulAdd(_, _, _)
MulAdd(bits, k, carry) ==
    IF bits = <<>> THEN IntToBits(carry)
    ELSE LET n == Len(bits)
             w == IF n < 16 THEN n ELSE 16
             p == BitsToInt(SubSeq(bits, n - w + 1, n)) * k + carry
         IN  MulAdd(SubSeq(bits, 1, n - w), k, p \div 2^w) \o LowBits(p, w)

\* (r * 2^n) % b for n <= 15 and b < 2^16
ShiftMod(r, b, n) == (r * 2^n) % b

\* what is left of r behind the first n bits behind the point of r / b, for
\* r < b: (r * 2^n) % b, shifted by at most 15 bits at a time (n <= 60)
QuotientRest(r, b, n) ==
    IF n <= 15 THEN ShiftMod(r, b, n)
    ELSE IF n <= 30 THEN ShiftMod(ShiftMod(r, b, 15), b, n - 15)
    ELSE IF n <= 45 THEN ShiftMod(ShiftMod(ShiftMod(r, b, 15), b, 15), b, n - 30)
    ELSE ShiftMod(ShiftMod(ShiftMod(ShiftMod(r, b, 15), b, 15), b, 15), b, n - 45)

\* the first n bits behind the point of r / b, for r < b
QuotientBits(r, b, n) ==
    [i \in 1..n |-> IF 2 * QuotientRest(r, b, i - 1) >= b THEN 1 ELSE 0]

\* the zeros between the point and the first one of r / b, for 0 < r < b
RECURSIVE LeadingZeros(_, _)
LeadingZeros(r, b) == IF 2 * r >= b THEN 0 ELSE 1 + LeadingZeros(2 * r, b)

\* round to nearest, halves to even: kept bits, the bit behind them, and
\* whether anything is behind that bit
RoundHalfEven(kept, half, more) ==
    IF half = 1 /\ (more \/ kept[Len(kept)] = 1) THEN MulAdd(kept, 1, 1)
    ELSE kept

\* a / b of two ints, 0 <= a <= b, 0 < b: the float nearest to the quotient
TrueDivide(a, b) ==
    IF a = 0 THEN [bits |-> <<>>, scale |-> 0]
    ELSE IF a = b THEN [bits |-> <<1>>, scale |-> 0]
    ELSE LET z == LeadingZeros(a, b)
             r == QuotientRest(a, b, z)
             rest == QuotientRest(r, b, MantissaBits)
             half == IF 2 * rest >= b THEN 1 ELSE 0
         IN  [bits |-> RoundHalfEven(QuotientBits(r, b, MantissaBits), half,
                                     2 * rest - half * b # 0),
              scale |-> z + MantissaBits]

\* x * 100 of a float: the exact product, rounded to the nearest float
Times100(x) ==
    LET product == Significant(MulAdd(x.bits, 100, 0))
        cut == Len(product) - MantissaBits
    IN  IF cut <= 0 THEN [bits |-> product, scale |-> x.scale]
        ELSE [bits |-> RoundHalfEven(SubSeq(product, 1, MantissaBits),
                                     product[MantissaBits + 1],
                                     ~AllZero(SubSeq(product, MantissaBits + 2, Len(product)))),
              scale |-> x.scale - cut]

\* round(x) of a float x >= 0: the nearest int, halves to even
Round(x) ==
    LET n == Len(x.bits)
        whole == IF n > x.scale THEN BitsToInt(SubSeq(x.bits, 1, n - x.scale)) ELSE 0
        half == IF x.scale >= 1 /\ n >= x.scale THEN x.bits[n - x.scale + 1] ELSE 0
        more == IF x.scale >= 1 /\ n >= x.scale
                THEN ~AllZero(SubSeq(x.bits, n - x.scale + 2, n))
                ELSE ~AllZero(x.bits)
    IN  IF half = 1 /\ (more \/ whole % 2 = 1) THEN whole + 1 ELSE whole

\* format_size, for sizes below 1024: the number and the unit B
FormatSize(size_bytes) == [number |-> size_bytes, unit |-> "B"]

\* calculate_memory_split(total_size, vram_size), vram_size None or an int
CalculateMemorySplit(total_size, vram_size) ==
    IF total_size = 0
    THEN [cpu_size |-> [number |-> 0, unit |-> "B"], cpu_percent |-> 0,
          gpu_size |-> [number |-> 0, unit |-> "B"], gpu_percent |-> 0,
          display |-> <<"N/A">>]
    ELSE LET vram == IF vram_size.none THEN 0 ELSE vram_size.n
             gpu_bytes == IF vram > total_size THEN total_size ELSE vram
             cpu_bytes == total_size - gpu_bytes
             cpu_percent == Round(Times100(TrueDivide(cpu_bytes, total_size)))
             gpu_percent == Round(Times100(TrueDivide(gpu_bytes, total_size)))
         IN  [cpu_size |-> FormatSize(cpu_bytes), cpu_percent |-> cpu_percent,
              gpu_size |-> FormatSize(gpu_bytes), gpu_percent |-> gpu_percent,
              display |->
                IF cpu_percent = 0 THEN <<FormatSize(gpu_bytes), "(100% GPU)">>
                ELSE IF gpu_percent = 0 THEN <<FormatSize(cpu_bytes), "(100% CPU)">>
                ELSE <<FormatSize(cpu_bytes), cpu_percent, "/",
                       FormatSize(gpu_bytes), gpu_percent>>]

\* the sizes the Status Source reports: size an int, size_vram an int, null
\* or left out
VramSizes ==
    {[none |-> TRUE, n |-> 0]} \cup {[none |-> FALSE, n |-> k] : k \in 0..(MaxSize + 1)}

InitSplit ==
    /\ pc = "split"
    /\ split \in [total_size : 0..MaxSize, vram_size : VramSizes, result : {<<>>}]
    /\ file = Missing
    /\ history = <<>>
    /\ prev = {}
    /\ clock = BootTime
    /\ ret = "none"
    /\ last = NoCall
    /\ log = <<>>
    /\ loaded = <<>>
    /\ before = Here
    /\ sessions = <<>>

\* get_running_models calls calculate_memory_split(model['size'], size_vram)
SplitCall ==
    /\ pc = "split"
    /\ split.result = <<>>
    /\ split' = [split EXCEPT !.result = CalculateMemorySplit(split.total_size,
                                                              split.vram_size)]
    /\ ret' = "ok"
    /\ last' = [NoCall EXCEPT !.op = "split"]
    /\ UNCHANGED <<pc, file, history, prev, clock, log, loaded, before, sessions>>

NextSplit == SplitCall

SpecSplit == InitSplit /\ [][NextSplit]_vars

----------------------------------------------------------------------------
(* Vocabulary of the properties *)

\* the last call was a tick whose fetch succeeded: update_history ran
Reconciled == last.op = "tick" /\ last.fetch = "ok"

\* the time of an isoformat string (the inverse of IsoFormat)
TimeOf(str) == CHOOSE t \in 0..(BootTime + MaxTicks + 4) : IsoFormat(t) = str

\* the positions of the open sessions of a name
OpenAt(h, name) ==
    {i \in DOMAIN h : /\ "model_name" \in DOMAIN h[i]
                      /\ h[i]["model_name"] = name
                      /\ Get(h[i], "ended_at", Null) = Null}

\* the positions of all sessions of a name
SessionsAt(h, name) ==
    {i \in DOMAIN h : "model_name" \in DOMAIN h[i] /\ h[i]["model_name"] = name}

\* the model names of a collection
NamesIn(h) == {h[i]["model_name"] : i \in {j \in DOMAIN h : "model_name" \in DOMAIN h[j]}}

\* the sessions the last tick put in front of the collection it found
Opened == Len(history) - Len(before.history)

----------------------------------------------------------------------------
(* C1 *)

\* C1: after startup and after every update_history call, whatever the
\* present-sets passed so far, at most one session per model_name has ended_at
\* unset.
C1_AtMostOneOpenSession ==
    pc = "run" =>
        \A name \in NamesIn(history) : Cardinality(OpenAt(history, name)) <= 1

\* a tick after which a restarted model has an open session next to a closed one
C1_Witness ==
    /\ Reconciled
    /\ Len(log) >= 3
    /\ \E name \in Names :
        /\ Cardinality(OpenAt(history, name)) = 1
        /\ Cardinality(SessionsAt(history, name)) >= 2

----------------------------------------------------------------------------
(* C2 *)

\* the metadata the report of the last tick carries for a name
ReportedMetas(name) ==
    {last.models[i].meta : i \in {j \in DOMAIN last.models : last.models[j].name = name}}

\* C2: a tick creates exactly one new session for each name in current minus
\* previous and none for any other name; each new session has ended_at unset,
\* started_at equal to the tick's time and metadata reported in the tick, and
\* the new sessions are at the front of the collection, before the sessions
\* the tick found.  A name reported twice in the tick still gets one session.
C2_TickOpensNewNames ==
    Reconciled =>
        LET entered == CurrentNames(last.models) \ before.prev
        IN  /\ Opened = Cardinality(entered)
            /\ {Get(history[i], "model_name", "") : i \in 1..Opened} = entered
            /\ \A i \in 1..Opened :
                /\ DOMAIN history[i] = {"model_name", "started_at", "ended_at", "meta"}
                /\ history[i]["ended_at"] = Null
                /\ history[i]["started_at"] = Str(IsoFormat(last.now))
                /\ history[i]["meta"] \in ReportedMetas(history[i]["model_name"])
            /\ \A i \in DOMAIN before.history :
                /\ DOMAIN history[Opened + i] = DOMAIN before.history[i]
                /\ \A k \in DOMAIN before.history[i] \ {"ended_at"} :
                    history[Opened + i][k] = before.history[i][k]

\* a tick that reports a new name twice, with different metadata, to a store
\* that already holds sessions
C2_Witness ==
    /\ Reconciled
    /\ Len(last.models) = 2
    /\ last.models[1].name = last.models[2].name
    /\ last.models[1].meta # last.models[2].meta
    /\ last.models[1].name \notin before.prev
    /\ before.history # <<>>
    /\ Opened = 1

----------------------------------------------------------------------------
(* C3 *)

\* the present-set before the k-th reconciled tick since startup
PresentBefore(k) == IF k = 1 THEN OpenNames(loaded) ELSE log[k - 1].names

\* the reconciled ticks at which a name entered the present-set
EnteredAt(name) ==
    {k \in DOMAIN log : name \in log[k].names /\ name \notin PresentBefore(k)}

\* the sessions of a name that started at the k-th reconciled tick
StartedAtTick(name, k) ==
    {i \in SessionsAt(history, name) :
        history[i]["started_at"] = Str(IsoFormat(log[k].at))}

\* C3: a tick whose present-set is empty leaves no session open: it creates
\* none, and every session that was open gets ended_at set to the tick's time.
\* A model that enters at one tick and is absent at the next has exactly one
\* session for it, with started_at and ended_at the times of the two ticks.
C3_EmptyTickClosesAll ==
    /\ (Reconciled /\ CurrentNames(last.models) = {}) =>
            /\ Len(history) = Len(before.history)
            /\ \A i \in DOMAIN history : Get(history[i], "ended_at", Null) # Null
            /\ \A i \in DOMAIN before.history :
                IsOpen(before.history[i]) =>
                    Get(history[i], "ended_at", Null) = Str(IsoFormat(last.now))
    /\ \A name \in Names : \A k \in EnteredAt(name) :
            (k < Len(log) /\ name \notin log[k + 1].names) =>
                /\ Cardinality(StartedAtTick(name, k)) = 1
                /\ \A i \in StartedAtTick(name, k) :
                    history[i]["ended_at"] = Str(IsoFormat(log[k + 1].at))
                /\ (EnteredAt(name) = {k} /\ name \notin NamesIn(loaded)) =>
                        Cardinality(SessionsAt(history, name)) = 1

\* an empty tick right after the tick at which two models entered
C3_Witness ==
    /\ Reconciled
    /\ CurrentNames(last.models) = {}
    /\ before.prev = Names
    /\ \A name \in Names : Len(log) - 1 \in EnteredAt(name)
    /\ \E i \in DOMAIN before.history : ~IsOpen(before.history[i])

----------------------------------------------------------------------------
(* C4 *)

\* C4: for every name in both the previous and the current present-set the
\* tick leaves the name's open session as it was (open, same started_at, same
\* metadata, whatever metadata the tick reports); the sessions it closes are
\* those of the names that left.
C4_StayingSessionsUntouched ==
    Reconciled =>
        /\ \A name \in before.prev \cap CurrentNames(last.models) :
            /\ OpenAt(before.history, name) # {}
            /\ \A i \in OpenAt(before.history, name) :
                history[Opened + i] = before.history[i]
        /\ \A name \in before.prev \ CurrentNames(last.models) :
            /\ OpenAt(before.history, name) # {}
            /\ \A i \in OpenAt(before.history, name) :
                history[Opened + i]["ended_at"] = Str(IsoFormat(last.now))

\* one model leaves, the other stays and is reported with other metadata than
\* its session holds
C4_Witness ==
    /\ Reconciled
    /\ before.prev = Names
    /\ Cardinality(CurrentNames(last.models)) = 1
    /\ \E name \in CurrentNames(last.models) :
        \E i \in OpenAt(history, name) : history[i]["meta"] \notin ReportedMetas(name)

----------------------------------------------------------------------------
(* C5 *)

\* C5: update_history called again with the present-set of the call before it
\* creates no session and closes none: the collection is as it was.
C5_SamePresentSetChangesNothing ==
    (/\ Reconciled
     /\ Len(log) >= 2
     /\ log[Len(log)].names = log[Len(log) - 1].names) =>
        /\ history = before.history
        /\ prev = before.prev

\* the same non-empty present-set twice, the second time with other metadata,
\* in a store that holds open and closed sessions
C5_Witness ==
    /\ Reconciled
    /\ Len(log) >= 2
    /\ log[Len(log)].names = log[Len(log) - 1].names
    /\ \E name \in prev : \E i \in OpenAt(history, name) :
        history[i]["meta"] \notin ReportedMetas(name)
    /\ \E i \in DOMAIN history : ~IsOpen(history[i])

----------------------------------------------------------------------------
(* C6 *)

\* the first reconciled tick after the k-th at which a name is absent
LeftAfter(name, k) ==
    LET absent == {j \in DOMAIN log : j > k /\ name \notin log[j].names}
    IN  CHOOSE j \in absent : \A m \in absent : j <= m

\* C6: from an empty store, once a model has been present, absent and present
\* again it has exactly two sessions: the older one, of its first residency,
\* closed at the tick it was first absent and never reopened, and in front of
\* it the newer one, of its second residency, open while the model is present.
C6_RestartGivesSecondSession ==
    \A name \in Names :
        (loaded = <<>> /\ Cardinality(EnteredAt(name)) = 2) =>
            LET first == CHOOSE k \in EnteredAt(name) : \A m \in EnteredAt(name) : k <= m
                second == CHOOSE k \in EnteredAt(name) : \A m \in EnteredAt(name) : m <= k
            IN  /\ Cardinality(SessionsAt(history, name)) = 2
                /\ \E older, newer \in SessionsAt(history, name) :
                    /\ newer < older
                    /\ history[older]["started_at"] = Str(IsoFormat(log[first].at))
                    /\ history[older]["ended_at"] =
                            Str(IsoFormat(log[LeftAfter(name, first)].at))
                    /\ history[newer]["started_at"] = Str(IsoFormat(log[second].at))
                    /\ name \in log[Len(log)].names <=>
                            history[newer]["ended_at"] = Null

\* A present, absent, present: the third tick has just run
C6_Witness ==
    /\ Reconciled
    /\ loaded = <<>>
    /\ Cardinality(EnteredAt("A")) = 2
    /\ "A" \in log[Len(log)].names
    /\ Len(log) - 1 \notin EnteredAt("A")
    /\ Cardinality(OpenAt(history, "A")) = 1

----------------------------------------------------------------------------
(* C7 *)

\* the four ticks of the scenario have run, from an empty store
ScenarioDone ==
    /\ loaded = <<>>
    /\ Len(log) = Len(Scenario)
    /\ \A k \in DOMAIN log : log[k].names = Scenario[k]

\* C7: from an empty store the ticks {A}, {A,B}, {B}, {} leave exactly two
\* sessions: A from the time of tick 1 to the time of tick 3, B from the time
\* of tick 2 to the time of tick 4.
C7_ScenarioSessions ==
    ScenarioDone =>
        /\ Len(history) = 2
        /\ \E a, b \in DOMAIN history :
            /\ history[a]["model_name"] = "A"
            /\ history[a]["started_at"] = Str(IsoFormat(log[1].at))
            /\ history[a]["ended_at"] = Str(IsoFormat(log[3].at))
            /\ history[b]["model_name"] = "B"
            /\ history[b]["started_at"] = Str(IsoFormat(log[2].at))
            /\ history[b]["ended_at"] = Str(IsoFormat(log[4].at))

\* the fourth tick of the scenario has just run
C7_Witness == ScenarioDone /\ Reconciled /\ before.prev = {"B"}

----------------------------------------------------------------------------
(* C8 *)

\* C8: when the fetch fails, get_running_models raises instead of returning a
\* list, and update_history does not run: the collection, the previous
\* present-set and the file are as the call found them.
C8_FailedFetchChangesNothing ==
    (last.op = "tick" /\ last.fetch \in FetchFailures) =>
        /\ ret = "error"
        /\ history = before.history
        /\ prev = before.prev
        /\ file = before.file

\* a fetch fails while a model is resident and its open session is persisted
C8_Witness ==
    /\ last.op = "tick"
    /\ last.fetch = "http_error"
    /\ prev # {}
    /\ file = DocOf(history)
    /\ \E i \in DOMAIN history : IsOpen(history[i])

----------------------------------------------------------------------------
(* C9 *)

\* C9: a tick keeps every session it finds, in its order behind the sessions
\* it opens: the session is unchanged, or it was open and the tick set its
\* ended_at to the tick's time, and nothing else of it.  So model_name,
\* started_at and metadata never change, and an ended_at that is set stays as
\* it is.
C9_SessionsKeptAndClosedOnce ==
    last.op = "tick" =>
        /\ Opened >= 0
        /\ \A i \in DOMAIN before.history :
            \/ history[Opened + i] = before.history[i]
            \/ /\ IsOpen(before.history[i])
               /\ "ended_at" \in DOMAIN before.history[i]
               /\ history[Opened + i] =
                    [before.history[i] EXCEPT !["ended_at"] = Str(IsoFormat(last.now))]

\* a tick opens a session and closes another of a name that has an older,
\* closed session
C9_Witness ==
    /\ Reconciled
    /\ Opened >= 1
    /\ \E i, j \in DOMAIN before.history :
        /\ i # j
        /\ IsOpen(before.history[i])
        /\ ~IsOpen(history[Opened + i])
        /\ ~IsOpen(before.history[j])
        /\ Get(before.history[j], "model_name", "") = before.history[i]["model_name"]

----------------------------------------------------------------------------
(* C10 *)

\* the records of the document load_history read
LoadedFrom == before.file.recs

\* a session as update_history writes it: the keys of a session and no other
\* (ended_at left out counts as ended_at null), an isoformat started_at
WellFormed(r) ==
    /\ IsDict(r)
    /\ DOMAIN r \cup {"ended_at"} = {"model_name", "started_at", "ended_at", "meta"}
    /\ r["started_at"].t = "str"
    /\ \E t \in 0..(BootTime + MaxTicks + 4) : IsoFormat(t) = r["started_at"].s

\* the start of the retention window of the load
WindowStart == last.now - RetentionDays * TicksPerDay

\* a well-formed session whose started_at is inside the retention window
InWindow(r) == WellFormed(r) /\ TimeOf(r["started_at"].s) >= WindowStart

\* what identifies a session: all of it but ended_at
SessionKey(r) == <<r["model_name"], r["started_at"], r["meta"]>>

KeysOf(recs) == [i \in DOMAIN recs |-> SessionKey(recs[i])]

\* retention, as claimed: no returned session is older than the window, and
\* the well-formed sessions returned are those of the document that are inside
\* the window, in the order of the document
RetentionHolds ==
    /\ \A i \in DOMAIN history :
            TimeOf(history[i]["started_at"].s) >= WindowStart
    /\ KeysOf(SelectSeq(history, WellFormed)) = KeysOf(SelectSeq(LoadedFrom, InWindow))

\* load_history discards the document as a whole: its first record has the
\* legacy keys, or a record makes the reading raise (it is no dict, or its
\* started_at is no string)
DiscardedWhole ==
    \/ /\ LoadedFrom # <<>>
       /\ IsDict(LoadedFrom[1])
       /\ {"timestamp", "models"} \subseteq DOMAIN LoadedFrom[1]
    \/ \E i \in DOMAIN LoadedFrom :
        \/ ~IsDict(LoadedFrom[i])
        \/ /\ "started_at" \in DOMAIN LoadedFrom[i]
           /\ LoadedFrom[i]["started_at"].t # "str"

\* C10 as stated: after load_history every persisted session whose started_at
\* is older than now minus the retention window is absent from the returned
\* collection, and every well-formed session whose started_at is inside the
\* window is present, in its original relative order.
C10_Original ==
    (last.op = "load" /\ before.file.kind = "doc") => RetentionHolds

\* C10, amended: the same, for a document that load_history does not discard
\* as a whole (a legacy-shaped first record, or a record that makes the
\* reading raise, empties the returned collection).
C10_RetentionUnlessDiscarded ==
    (last.op = "load" /\ before.file.kind = "doc" /\ ~DiscardedWhole) => RetentionHolds

\* a document of a session just older than the window and one that started
\* exactly at its start: the second alone is returned
C10_Witness ==
    /\ last.op = "load"
    /\ before.file.kind = "doc"
    /\ Len(LoadedFrom) = 2
    /\ WellFormed(LoadedFrom[1]) /\ WellFormed(LoadedFrom[2])
    /\ TimeOf(LoadedFrom[1]["started_at"].s) = WindowStart - 1
    /\ TimeOf(LoadedFrom[2]["started_at"].s) = WindowStart
    /\ Len(history) = 1
    /\ SessionKey(history[1]) = SessionKey(LoadedFrom[2])

----------------------------------------------------------------------------
(* C11 *)

\* a record without its ended_at
Rest(r) == [k \in DOMAIN r \ {"ended_at"} |-> r[k]]

\* the strictly increasing maps of the positions of h into those of recs
Embeddings(h, recs) ==
    {e \in [DOMAIN h -> DOMAIN recs] : \A i, j \in DOMAIN h : i < j => e[i] < e[j]}

\* C11: every session load_history returns is a session of the document, in
\* the order of the document, with ended_at equal to its own started_at when
\* the document has it unset (null or left out) and with the ended_at of the
\* document when it is set there; nothing else of the session differs.
C11_OrphansClosedAtStart ==
    (last.op = "load" /\ before.file.kind = "doc") =>
        \E e \in Embeddings(history, LoadedFrom) :
            \A i \in DOMAIN history :
                LET r == LoadedFrom[e[i]]
                IN  /\ IsDict(r)
                    /\ Rest(history[i]) = Rest(r)
                    /\ "ended_at" \in DOMAIN history[i]
                    /\ history[i]["ended_at"] =
                        IF Get(r, "ended_at", Null) = Null
                        THEN history[i]["started_at"]
                        ELSE r["ended_at"]

\* a document of an orphan and of a closed session, both inside the window:
\* both are returned, the orphan closed at its start
C11_Witness ==
    /\ last.op = "load"
    /\ before.file.kind = "doc"
    /\ Len(LoadedFrom) = 2
    /\ Len(history) = 2
    /\ IsDict(LoadedFrom[1]) /\ IsDict(LoadedFrom[2])
    /\ Get(LoadedFrom[1], "ended_at", Null) = Null
    /\ history[1]["ended_at"] = history[1]["started_at"]
    /\ Get(LoadedFrom[2], "ended_at", Null) # Null
    /\ history[2]["ended_at"] = LoadedFrom[2]["ended_at"]
    /\ history[2]["ended_at"] # history[2]["started_at"]

----------------------------------------------------------------------------
(* C12 *)

\* a record of the legacy shape: a dict with the keys timestamp and models
LegacyShaped(r) == IsDict(r) /\ {"timestamp", "models"} \subseteq DOMAIN r

\* C12: load_history of a document whose records all have the legacy shape
\* (the keys timestamp and models) returns the empty collection, whatever
\* else the records hold.
C12_LegacyDocumentYieldsEmpty ==
    (/\ last.op = "load"
     /\ before.file.kind = "doc"
     /\ \A i \in DOMAIN LoadedFrom : LegacyShaped(LoadedFrom[i])) =>
        history = <<>>

\* a document of two legacy records, one of which also holds the fields of a
\* session that started inside the window
C12_Witness ==
    /\ last.op = "load"
    /\ before.file.kind = "doc"
    /\ Len(LoadedFrom) = 2
    /\ \A i \in DOMAIN LoadedFrom : LegacyShaped(LoadedFrom[i])
    /\ \E i \in DOMAIN LoadedFrom :
        /\ "started_at" \in DOMAIN LoadedFrom[i]
        /\ LoadedFrom[i]["started_at"].t = "str"
        /\ TimeOf(LoadedFrom[i]["started_at"].s) >= WindowStart
    /\ history = <<>>

----------------------------------------------------------------------------
(* C13 *)

\* the fields of a session
SessionFields == {"model_name", "started_at", "ended_at", "meta"}

\* a record of the legacy shape, or one that lacks a field of a session
Malformed(r) == LegacyShaped(r) \/ ~IsDict(r) \/ ~(SessionFields \subseteq DOMAIN r)

\* C13: when any record of the document, at any position, has the legacy
\* shape or lacks a field of a session, load_history returns the empty
\* collection: it never returns the document with only the malformed records
\* filtered out.
C13_AnyMalformedRecordDiscardsAll ==
    (/\ last.op = "load"
     /\ before.file.kind = "doc"
     /\ \E i \in DOMAIN LoadedFrom : Malformed(LoadedFrom[i])) =>
        history = <<>>

----------------------------------------------------------------------------
(* C14 *)

\* C14: for every state of the backing file (missing, unreadable or not
\* parseable, parsed but no list, a list with records of any shape)
\* load_history returns a collection of dicts and no exception leaves it; when
\* the file is missing, cannot be read or parsed, or is no list, and when a
\* record is no dict, the collection is empty.
C14_LoadFailsSoft ==
    last.op = "load" =>
        /\ ret = "ok"
        /\ pc = "run"
        /\ \A i \in DOMAIN history : IsDict(history[i])
        /\ (\/ before.file.kind \in {"missing", "corrupt", "nonlist"}
            \/ \E i \in DOMAIN LoadedFrom : ~IsDict(LoadedFrom[i])) =>
                history = <<>>

\* a list whose second record is no dict, behind a session inside the window
C14_Witness ==
    /\ last.op = "load"
    /\ before.file.kind = "doc"
    /\ Len(LoadedFrom) = 2
    /\ InWindow(LoadedFrom[1])
    /\ ~IsDict(LoadedFrom[2])
    /\ history = <<>>
    /\ ret = "ok"

----------------------------------------------------------------------------
(* C15 *)

\* C15: after a tick that opened or closed a session and whose write
\* succeeded, the persisted document is the in-memory collection: the same
\* records in the same order.
C15_WrittenDocumentIsCollection ==
    (Reconciled /\ history # before.history /\ last.wr = "ok") =>
        file = DocOf(history)

\* a tick that closes a session behind another one and writes: the document
\* holds both
C15_Witness ==
    /\ Reconciled
    /\ last.wr = "ok"
    /\ Len(history) >= 2
    /\ \E i \in DOMAIN before.history :
        IsOpen(before.history[i]) /\ ~IsOpen(history[Opened + i])
    /\ file = DocOf(history)
    /\ file # before.file

----------------------------------------------------------------------------
(* C16 *)

\* C16: a tick that opened and closed no session writes nothing: the file is
\* what it was; so a tick that writes has opened or closed a session.
C16_NoMutationNoWrite ==
    (last.op = "tick" /\ history = before.history) =>
        /\ last.wr = "none"
        /\ file = before.file

\* a tick that reports the models of the tick before it, with sessions in the
\* collection: nothing is written
C16_Witness ==
    /\ Reconciled
    /\ last.models # <<>>
    /\ history # <<>>
    /\ history = before.history
    /\ last.wr = "none"
    /\ file = before.file

----------------------------------------------------------------------------
(* C17 *)

\* C17: whenever the file is read while save_history runs, or after it was
\* cut off, the reader gets the complete document of before the call or the
\* complete document of the collection being saved, never a file cut short.
C17_ReaderSeesCompleteDocument ==
    last.op = "read" => loaded[1] \in {before.file, DocOf(history)}

----------------------------------------------------------------------------
(* C18 *)

\* the write of the tick before the last one failed
WriteFailedBefore ==
    /\ Len(log) >= 2
    /\ log[Len(log) - 1].failed

\* C18: a failed write does not stop the service, and the next tick that
\* fetches and ends without error after a tick whose write failed has written
\* again, also when it reports the same present-set: the document then is the
\* collection, the mutation of the failed tick included.
C18_FailedWriteRetried ==
    /\ last.op = "tick" => pc = "run"
    /\ (Reconciled /\ WriteFailedBefore /\ ret = "ok") =>
            /\ last.wr = "ok"
            /\ file = DocOf(history)

----------------------------------------------------------------------------
(* C19 *)

\* a session without the duration get_history writes into it
Plain(s) == [k \in DOMAIN s \ {"duration"} |-> s[k]]

\* the one-to-one maps of the positions of h onto themselves
Rearrangements(h) ==
    {f \in [DOMAIN h -> DOMAIN h] : \A i, j \in DOMAIN h : i # j => f[i] # f[j]}

\* C19: get_history returns every session of the store exactly once, newest
\* started_at first, sessions of one started_at in their order in the store;
\* the store keeps its sessions, their order and their fields (a duration is
\* written into each, nothing else: no session is added, removed, moved or
\* closed).
C19_GetHistoryNewestFirst ==
    last.op = "get_history" =>
        /\ \E f \in Rearrangements(history) :
            /\ Len(sessions) = Len(history)
            /\ \A i \in DOMAIN sessions : sessions[i] = history[f[i]]
            /\ \A i, j \in DOMAIN sessions : i < j =>
                \/ StrLess(sessions[j]["started_at"].s, sessions[i]["started_at"].s)
                \/ /\ sessions[j]["started_at"] = sessions[i]["started_at"]
                   /\ f[i] < f[j]
        /\ Len(history) = Len(before.history)
        /\ \A i \in DOMAIN history : Plain(history[i]) = Plain(before.history[i])

\* a store of at least three sessions that is not newest first and holds two
\* sessions of one started_at: the returned list is in another order than
\* the store
C19_Witness ==
    /\ last.op = "get_history"
    /\ Len(history) >= 3
    /\ sessions # history
    /\ \E i, j \in DOMAIN history :
        i < j /\ StrLess(history[i]["started_at"].s, history[j]["started_at"].s)
    /\ \E i, j \in DOMAIN history :
        /\ i # j
        /\ history[i]["started_at"] = history[j]["started_at"]
        /\ Plain(history[i]) # Plain(history[j])
    /\ \E i \in DOMAIN history : IsOpen(history[i])

----------------------------------------------------------------------------
(* C20 *)

\* the call of calculate_memory_split has returned
SplitDone == last.op = "split"

\* C20: calculate_memory_split returns for every size: for total_size = 0 it
\* returns 0% CPU, 0% GPU and the display 'N/A'; for total_size > 0 and any
\* vram_size (none, zero, up to or above total_size) both percentages are in
\* 0..100 and sum to 100, vram_size >= total_size gives 0% CPU / 100% GPU and
\* vram_size zero or none gives 100% CPU / 0% GPU.
C20_MemorySplit ==
    SplitDone =>
        LET r == split.result
            total == split.total_size
            vram == IF split.vram_size.none THEN 0 ELSE split.vram_size.n
        IN  /\ total = 0 =>
                r.cpu_percent = 0 /\ r.gpu_percent = 0 /\ r.display = <<"N/A">>
            /\ total > 0 =>
                /\ r.cpu_percent \in 0..100
                /\ r.gpu_percent \in 0..100
                /\ r.cpu_percent + r.gpu_percent = 100
                /\ vram >= total => (r.cpu_percent = 0 /\ r.gpu_percent = 100)
                /\ vram = 0 => (r.cpu_percent = 100 /\ r.gpu_percent = 0)

----------------------------------------------------------------------------
(* C21 *)

\* a session of the document with ended_at unset that started before the
\* retention window
OldOrphan(r) ==
    /\ IsDict(r)
    /\ "started_at" \in DOMAIN r
    /\ r["started_at"].t = "str"
    /\ \E t \in 0..(BootTime + MaxTicks + 4) : IsoFormat(t) = r["started_at"].s
    /\ TimeOf(r["started_at"].s) < WindowStart
    /\ Get(r, "ended_at", Null) = Null

\* C21: a persisted session with ended_at unset whose started_at is older
\* than the retention window is absent from what load_history returns: it is
\* dropped by the pruning, not repaired and kept.
C21_OldOrphansDropped ==
    (last.op = "load" /\ before.file.kind = "doc") =>
        \A i \in DOMAIN LoadedFrom :
            OldOrphan(LoadedFrom[i]) =>
                \A j \in DOMAIN history :
                    /\ history[j]["started_at"] # LoadedFrom[i]["started_at"]
                    /\ Rest(history[j]) # Rest(LoadedFrom[i])

\* a document of an orphan older than the window and an orphan inside it:
\* the second alone is returned, repaired
C21_Witness ==
    /\ last.op = "load"
    /\ before.file.kind = "doc"
    /\ Len(LoadedFrom) = 2
    /\ OldOrphan(LoadedFrom[1])
    /\ InWindow(LoadedFrom[2])
    /\ Get(LoadedFrom[2], "ended_at", Null) = Null
    /\ Len(history) = 1
    /\ Rest(history[1]) = Rest(LoadedFrom[2])
    /\ history[1]["ended_at"] = history[1]["started_at"]

----------------------------------------------------------------------------
(* C22 *)

\* the first reconciled tick of the process has just run
FirstTick == Reconciled /\ Len(log) = 1

\* the records of the document found at startup that had ended_at unset and
\* are in the list load_history returned
RecoveredOrphans ==
    IF before.file.kind # "doc" THEN {}
    ELSE {r \in {before.file.recs[i] : i \in DOMAIN before.file.recs} :
            /\ IsDict(r)
            /\ "model_name" \in DOMAIN r
            /\ Get(r, "ended_at", Null) = Null
            /\ \E i \in DOMAIN loaded : Rest(loaded[i]) = Rest(r)}

\* C22: after init_app the recorded present-set is the set of names with an
\* open session in the loaded store, and that set is empty: no session is
\* open.  So a model whose session was open in the document and that the
\* first tick reports gets a new open session, started at the tick, next to
\* its repaired session of zero duration.
C22_SeededAfterRecovery ==
    /\ (pc = "run" /\ last.op = "load") =>
            /\ prev = {history[i]["model_name"] : i \in {j \in DOMAIN history : IsOpen(history[j])}}
            /\ \A i \in DOMAIN history : ~IsOpen(history[i])
            /\ prev = {}
    /\ FirstTick =>
            \A r \in RecoveredOrphans :
                r["model_name"] \in log[1].names =>
                    \E j, k \in DOMAIN history :
                        /\ j < k
                        /\ Rest(history[k]) = Rest(r)
                        /\ history[k]["ended_at"] = r["started_at"]
                        /\ Get(history[j], "model_name", "") = r["model_name"]
                        /\ IsOpen(history[j])
                        /\ history[j]["started_at"] = Str(IsoFormat(last.now))

\* the document holds an open session of A, and the first tick reports A
C22_Witness ==
    /\ FirstTick
    /\ \E r \in RecoveredOrphans : r["model_name"] \in log[1].names
    /\ Len(history) = 2
    /\ IsOpen(history[1])
    /\ history[2]["ended_at"] = history[2]["started_at"]
    /\ history[1]["model_name"] = history[2]["model_name"]

----------------------------------------------------------------------------
(* C23 *)

\* the model names that have a session with ended_at unset
NamesOpen(h) == {Get(h[i], "model_name", "") : i \in {j \in DOMAIN h : IsOpen(h[j])}}

\* C23: after startup and after every call of update_history, also one whose
\* write failed, the names that have an open session are the recorded
\* previous present-set, and that set is the present-set of the last
\* reconciled tick (the empty set before the first).
C23_OpenNamesArePrevious ==
    pc = "run" =>
        /\ NamesOpen(history) = prev
        /\ prev = IF log = <<>> THEN {} ELSE log[Len(log)].names

\* a tick whose write failed, with a model present and a closed session in
\* the collection
C23_Witness ==
    /\ Reconciled
    /\ last.wr \in {"open_fail", "write_fail"}
    /\ Len(log) >= 2
    /\ prev # {}
    /\ NamesOpen(history) = prev
    /\ \E i \in DOMAIN history : ~IsOpen(history[i])

====
